---- MODULE Spec2Model ----
(***************************************************************************)
(* Model of clashctl's proxy tree (src/ui/components/proxy.rs): the        *)
(* ProxyItem / ProxyGroup / ProxyTree data model, the conversion of a      *)
(* backend snapshot into a tree, ProxyTree::merge, ProxyTree::toggle and   *)
(* the rendering of a tree into rows (ProxyGroup::get_widget and           *)
(* ProxyTreeWidget::render).                                               *)
(*                                                                         *)
(* Strings that are only compared (group names, proxy names) are modelled  *)
(* as naturals, whose order stands for the lexicographic order of the      *)
(* names.  Indices (cursor, current) are 0-based as in the code; TLA+      *)
(* sequences are 1-based, so members[i] of the code is members[i + 1].     *)
(***************************************************************************)
EXTENDS Integers, Sequences, FiniteSets, TLC

VARIABLES tree, last

vars == <<tree, last>>

\* ------------------------------------------------------------------ bounds

\* Spec: group names are 1..MaxGroups, member lists have at most MaxMembers names.
MaxGroups == 1
MaxMembers == 2
\* SpecNames: group names are 1..MaxNames (groups of at most one member).
MaxNames == 2
\* SpecConv: group names are 1..MaxConvGroups, proxy names 1..MaxConvLen, and the
\* "all" lists of a snapshot hold at most MaxConvLen names in total.
MaxConvGroups == 2
MaxConvLen == 2
\* SpecRender: trees of at most MaxRenderGroups groups of at most MaxRenderMembers
\* members, viewports of at most MaxWidth columns and MaxHeight rows.
MaxRenderGroups == 4
MaxRenderMembers == 6
MaxWidth == 8
MaxHeight == 7

\* ------------------------------------------------------------ small helpers

\* Option<T>: None is the empty sequence, Some(x) the one-element sequence.
None == <<>>
Some(x) == <<x>>

Min(a, b) == IF a < b THEN a ELSE b

\* usize::saturating_sub
saturating_sub(a, b) == IF a > b THEN a - b ELSE 0

Range(s) == {s[i] : i \in DOMAIN s}

\* All orders (sequences without repetition) in which the elements of S can be visited.
Orders(S) == {o \in [1..Cardinality(S) -> S] : \A i, j \in 1..Cardinality(S) : o[i] = o[j] => i = j}

\* --------------------------------------------------------------- data model

GroupTypes == {"Selector", "URLTest"}
NormalTypes == {"Vmess"}

\* ProxyType::is_normal
is_normal(proxy_type) == proxy_type \in NormalTypes

\* impl From<(&str, &Proxy)> for ProxyItem
ProxyItem(name, proxy) ==
    [name |-> name,
     proxy_type |-> proxy.proxy_type,
     history |-> IF Len(proxy.history) = 0 THEN None ELSE Some(proxy.history[1]),
     udp |-> proxy.udp]

\* struct ProxyGroup
ProxyGroup(name, proxy_type, members, current, cursor) ==
    [name |-> name, proxy_type |-> proxy_type, members |-> members,
     current |-> current, cursor |-> cursor]

\* struct ProxyTree; ProxyTree::default() is ProxyTree(<<>>, FALSE, 0)
ProxyTree(groups, expanded, cursor) ==
    [groups |-> groups, expanded |-> expanded, cursor |-> cursor]

Names(groups) == {groups[i].name : i \in DOMAIN groups}

\* #[derive(Hash)] on ProxyItem: every field is fed to the hasher.
ItemHash(x) == <<x.name, x.proxy_type, x.history, x.udp>>

\* #[derive(Hash)] on ProxyGroup: every field, cursor included, is fed to the
\* hasher (_life is a PhantomData and contributes nothing).  The 64-bit hash is
\* modelled as collision-free: two values hash alike iff the hashed fields agree.
GroupHash(g) ==
    <<g.name, g.proxy_type, [i \in DOMAIN g.members |-> ItemHash(g.members[i])],
      g.current, g.cursor>>

\* get_hash(&self.groups): a Vec hashes its length and its elements in order.
get_hash(groups) == [i \in DOMAIN groups |-> GroupHash(groups[i])]

\* ------------------------------------------------------ snapshot conversion

\* A snapshot (Proxies) is [groups: name -> [proxy_type, all, now],
\*                          lookup: name -> [proxy_type, history, udp]].

\* members.iter().position(|item| &item.name == name)
position(members, name) ==
    IF \E i \in DOMAIN members : members[i].name = name
    THEN Some((CHOOSE i \in DOMAIN members :
                 /\ members[i].name = name
                 /\ \A j \in DOMAIN members : members[j].name = name => i <= j) - 1)
    ELSE None

\* The three expect() calls of the conversion: one of them panics.
GroupPanics(val, name) ==
    LET group == val.groups[name] IN
    \/ group.all = None
    \/ \E i \in DOMAIN group.all[1] : group.all[1][i] \notin DOMAIN val.lookup
    \/ /\ group.now # None
       /\ \A i \in DOMAIN group.all[1] : group.all[1][i] # group.now[1]

FromPanics(val) == \E name \in DOMAIN val.groups : GroupPanics(val, name)

\* ConvertGroup with the cursor left at its default instead of on current.
ConvertGroup_cursor_default(val, name) ==
    LET group == val.groups[name]
        all == group.all[1]
        members == [i \in DOMAIN all |-> ProxyItem(all[i], val.lookup[all[i]])]
    IN ProxyGroup(name, group.proxy_type, members,
                  IF group.now = None THEN None ELSE position(members, group.now[1]), 0)

\* The body of the loop over val.groups(), for one group.
ConvertGroup(val, name) ==
    LET group == val.groups[name]
        all == group.all[1]
        members == [i \in DOMAIN all |-> ProxyItem(all[i], val.lookup[all[i]])]
        current == IF group.now = None THEN None ELSE position(members, group.now[1])
    IN ProxyGroup(name, group.proxy_type, members, current,
                  IF current = None THEN 0 ELSE current[1])

\* Vec::sort_by_cached_key(|x| x.name): a stable sort, here by insertion.
RECURSIVE Insert(_, _)
Insert(sorted, g) ==
    IF sorted = <<>> THEN <<g>>
    ELSE IF g.name < Head(sorted).name THEN <<g>> \o sorted
         ELSE <<Head(sorted)>> \o Insert(Tail(sorted), g)

RECURSIVE sort_by_cached_key(_)
sort_by_cached_key(groups) ==
    IF groups = <<>> THEN <<>>
    ELSE Insert(sort_by_cached_key(SubSeq(groups, 1, Len(groups) - 1)),
                groups[Len(groups)])

\* impl From<Proxies> for ProxyTree; order is the order in which val.groups()
\* yields the groups.  Defined when FromPanics(val) is false.
From(val, order) ==
    ProxyTree(sort_by_cached_key([i \in DOMAIN order |-> ConvertGroup(val, order[i])]),
              FALSE, 0)

\* ------------------------------------------------------------------- merge

\* FromIterator for HashMap over (name, group): a later entry of the same name
\* replaces an earlier one.
HashMapFrom(groups) ==
    [n \in Names(groups) |->
        groups[CHOOSE i \in DOMAIN groups :
                 /\ groups[i].name = n
                 /\ \A j \in DOMAIN groups : groups[j].name = n => j <= i]]

\* Replace with the struct update forgotten: the incoming group, cursor and all.
Replace_incoming_cursor(group, other_group) == other_group

\* Replace that also keeps the old group's current.
Replace_keep_current(group, other_group) ==
    [other_group EXCEPT !.cursor = group.cursor, !.current = group.current]

\* *group = ProxyGroup { cursor: group.cursor, ..other_group }
Replace(group, other_group) == [other_group EXCEPT !.cursor = group.cursor]

\* MergeLoop with map.get in place of map.remove: a matched entry stays in the map.
RECURSIVE MergeLoop_get(_, _, _, _)
MergeLoop_get(groups, i, map, rewritten) ==
    IF i > Len(groups) THEN [groups |-> groups, map |-> map, rewritten |-> rewritten]
    ELSE LET group == groups[i] IN
         IF group.name \in DOMAIN map /\ GroupHash(group) # GroupHash(map[group.name])
         THEN MergeLoop_get([groups EXCEPT ![i] = Replace(group, map[group.name])],
                            i + 1, map, rewritten \cup {i})
         ELSE MergeLoop_get(groups, i + 1, map, rewritten)

\* for group in self.groups.iter_mut() { ... }, from index i on (1-based).
RECURSIVE MergeLoop(_, _, _, _)
MergeLoop(groups, i, map, rewritten) ==
    IF i > Len(groups) THEN [groups |-> groups, map |-> map, rewritten |-> rewritten]
    ELSE LET group == groups[i] IN
         IF group.name \in DOMAIN map
         THEN LET other_group == map[group.name]
                  removed == [n \in DOMAIN map \ {group.name} |-> map[n]]
              IN IF GroupHash(group) = GroupHash(other_group)
                 THEN MergeLoop(groups, i + 1, removed, rewritten)
                 ELSE MergeLoop([groups EXCEPT ![i] = Replace(group, other_group)],
                                i + 1, removed, rewritten \cup {i})
         ELSE MergeLoop(groups, i + 1, map, rewritten)

\* The names left in the map after the loop; map.into_iter() yields them in an
\* order the HashMap chooses.
Remaining(self, other) ==
    DOMAIN MergeLoop(self.groups, 1, HashMapFrom(other.groups), {}).map

\* merge followed by a re-sort of the group list by name.
merge_resorted(self, other, order) ==
    IF get_hash(self.groups) = get_hash(other.groups)
    THEN [tree |-> self, path |-> "return", rewritten |-> {}]
    ELSE LET r == MergeLoop(self.groups, 1, HashMapFrom(other.groups), {}) IN
         [tree |-> [self EXCEPT !.groups = sort_by_cached_key(
                        r.groups \o [k \in DOMAIN order |-> r.map[order[k]]])],
          path |-> "full",
          rewritten |-> r.rewritten]

\* ProxyTree::merge; order is the order in which map.into_iter() yields the
\* groups left in the map.  path records which return was taken, rewritten the
\* (1-based) indices of the groups the loop assigned to.
merge(self, other, order) ==
    IF get_hash(self.groups) = get_hash(other.groups)
    THEN [tree |-> self, path |-> "return", rewritten |-> {}]
    ELSE LET r == MergeLoop(self.groups, 1, HashMapFrom(other.groups), {}) IN
         [tree |-> [self EXCEPT !.groups =
                        r.groups \o [k \in DOMAIN order |-> r.map[order[k]]]],
          path |-> "full",
          rewritten |-> r.rewritten]

\* ProxyTree::toggle
toggle(self) == [self EXCEPT !.expanded = ~self.expanded]

\* ----------------------------------------------------------- cursor movement

\* The input handler's "move down": in expanded mode the cursor of the focused
\* group, otherwise the tree cursor, advances unless it is at the last entry.
cursor_down(self) ==
    IF self.cursor >= Len(self.groups) THEN self
    ELSE IF self.expanded
         THEN LET group == self.groups[self.cursor + 1] IN
              IF group.cursor + 1 < Len(group.members)
              THEN [self EXCEPT !.groups[self.cursor + 1].cursor = group.cursor + 1]
              ELSE self
         ELSE IF self.cursor + 1 < Len(self.groups)
              THEN [self EXCEPT !.cursor = self.cursor + 1]
              ELSE self

\* The input handler's "move up".
cursor_up(self) ==
    IF self.cursor >= Len(self.groups) THEN self
    ELSE IF self.expanded
         THEN LET group == self.groups[self.cursor + 1] IN
              [self EXCEPT !.groups[self.cursor + 1].cursor = saturating_sub(group.cursor, 1)]
         ELSE [self EXCEPT !.cursor = saturating_sub(self.cursor, 1)]

\* ---------------------------------------------------------------- rendering

\* Consts::FOCUSED_INDICATOR_SPAN.width()
IndicatorWidth == 2

\* ProxyGroup::get_delay_span
get_delay_span(delay) ==
    IF delay = 0 THEN "NO_LATENCY_SPAN"
    ELSE IF delay <= 200 THEN "LOW_LATENCY_SPAN"
    ELSE IF delay <= 400 THEN "MID_LATENCY_SPAN"
    ELSE "HIGH_LATENCY_SPAN"

\* ProxyGroup::get_delay_style
get_delay_style(delay) ==
    IF delay = 0 THEN "NO_LATENCY_STYLE"
    ELSE IF delay <= 200 THEN "LOW_LATENCY_STYLE"
    ELSE IF delay <= 400 THEN "MID_LATENCY_STYLE"
    ELSE "HIGH_LATENCY_STYLE"

\* ProxyGroup::get_summary_widget: one span per member.
get_summary_widget(self) ==
    [i \in DOMAIN self.members |->
        LET x == self.members[i] IN
        IF is_normal(x.proxy_type)
        THEN IF x.history # None THEN get_delay_span(x.history[1]) ELSE "NO_LATENCY_SPAN"
        ELSE "NOT_PROXY_SPAN"]

\* The chunk size get_widget passes to chunks().
ChunkSize(width) == saturating_sub(width, IndicatorWidth + 2) \div 2

\* <[T]>::chunks(chunk_size) for chunk_size > 0; chunks(0) panics.
RECURSIVE chunks(_, _)
chunks(spans, chunk_size) ==
    IF spans = <<>> THEN <<>>
    ELSE <<SubSeq(spans, 1, Min(chunk_size, Len(spans)))>>
         \o chunks(SubSeq(spans, chunk_size + 1, Len(spans)), chunk_size)

\* Whether get_widget panics: the summary branch calls chunks(0).
WidgetPanics(width, status) == status # "Expanded" /\ ChunkSize(width) = 0

\* The first row get_widget pushes.
HeaderRow(self, status) ==
    [kind |-> "header",
     prefix |-> IF status = "Focused" THEN "FOCUSED_INDICATOR_SPAN"
                ELSE "UNFOCUSED_INDICATOR_SPAN",
     name |-> self.name,
     proxy_type |-> self.proxy_type,
     proxy_count |-> IF status = "Expanded"
                     THEN <<self.cursor + 1, Len(self.members)>>
                     ELSE <<Len(self.members)>>]

\* let skipped = self.cursor.saturating_sub(4)
Skipped(self) == saturating_sub(self.cursor, 4)

\* The rows of the expanded listing: self.members.iter().skip(skipped).enumerate().
MemberRows(self) ==
    LET skipped == Skipped(self)
        is_current(index) == self.current # None /\ self.current[1] = index + skipped
        is_pointed(index) == self.cursor = index + skipped
    IN [k \in 1..saturating_sub(Len(self.members), skipped) |->
          LET i == k - 1
              x == self.members[k + skipped]
          IN [kind |-> "member",
              prefix |-> IF self.cursor = i + skipped
                         THEN "EXPANDED_FOCUSED_INDICATOR_SPAN"
                         ELSE "EXPANDED_INDICATOR_SPAN",
              name |-> x.name,
              style |-> IF is_current(i) THEN "current"
                        ELSE IF is_pointed(i) THEN "pointed"
                        ELSE "text",
              proxy_type |-> x.proxy_type,
              delay_span |-> IF x.history # None
                             THEN IF x.history[1] > 0
                                  THEN <<x.history[1], get_delay_style(x.history[1])>>
                                  ELSE <<"NO_LATENCY_SIGN", "NO_LATENCY_STYLE">>
                             ELSE IF ~is_normal(x.proxy_type) THEN <<>>
                                  ELSE <<"NO_LATENCY_SIGN", "NO_LATENCY_STYLE">>]]

\* The rows of the summary: the member spans in chunks, each behind the indicator.
SummaryRows(self, width, status) ==
    LET c == chunks(get_summary_widget(self), ChunkSize(width)) IN
    [k \in DOMAIN c |->
        [kind |-> "summary",
         prefix |-> IF status = "Focused" THEN "FOCUSED_INDICATOR_SPAN"
                    ELSE "UNFOCUSED_INDICATOR_SPAN",
         spans |-> c[k]]]

\* ProxyGroup::get_widget, when it does not panic.
get_widget(self, width, status) ==
    <<HeaderRow(self, status)>>
    \o (IF status = "Expanded" THEN MemberRows(self) ELSE SummaryRows(self, width, status))

\* The number of groups render skips, with the look-behind in both modes.
Skip_lookbehind(state) == saturating_sub(state.cursor, 2)

\* let skip = if self.state.expanded { *cursor } else { cursor.saturating_sub(2) }
Skip(state) == IF state.expanded THEN state.cursor ELSE saturating_sub(state.cursor, 2)

\* The get_widget calls render makes: the 0-based index of each group from skip
\* on, with the status it is given.
Calls(state) ==
    LET skip == Skip(state) IN
    [k \in 1..saturating_sub(Len(state.groups), skip) |->
        LET i == k - 1 IN
        [index |-> i + skip,
         status |-> IF state.cursor = i + skip
                    THEN IF state.expanded THEN "Expanded" ELSE "Focused"
                    ELSE "None"]]

RECURSIVE Concat(_)
Concat(rows) == IF rows = <<>> THEN <<>> ELSE Head(rows) \o Concat(Tail(rows))

\* ProxyTreeWidget::render up to the text handed to Paragraph: the rows of the
\* groups from skip on, cut to the height of the area; a panic of any
\* get_widget call is a panic of render.
render(state, width, height) ==
    LET calls == Calls(state) IN
    IF \E k \in DOMAIN calls : WidgetPanics(width, calls[k].status)
    THEN [result |-> "panic"]
    ELSE LET rows == Concat([k \in DOMAIN calls |->
                        get_widget(state.groups[calls[k].index + 1], width, calls[k].status)])
         IN [result |-> "rows", calls |-> calls,
             text |-> SubSeq(rows, 1, Min(height, Len(rows)))]

\* ------------------------------------------------------------ input universe

\* The backend's detail record of proxy x.
Proxy(x) == [proxy_type |-> "Vmess", history |-> <<100 * x>>, udp |-> FALSE]

\* The backend's lookup from proxy name to detail record, for the names in S.
Lookup(S) == [x \in S |-> Proxy(x)]

\* Raw groups over member lists <<1, ..., n>>, n <= maxLen, with every choice
\* of type and of active member among the members.
RawGroups(maxLen, types) ==
    {[proxy_type |-> t, all |-> Some([i \in 1..n |-> i]), now |-> w] :
        t \in types, n \in 0..maxLen, w \in {None} \cup {Some(x) : x \in 1..maxLen}}

WellFormedRaw(g) == g.now = None \/ g.now[1] \in Range(g.all[1])

\* Well-formed snapshots over group names 1..maxGroups.
Snapshots(maxGroups, maxLen, types) ==
    {[groups |-> g, lookup |-> Lookup(1..maxLen)] :
        g \in UNION {[S -> {r \in RawGroups(maxLen, types) : WellFormedRaw(r)}] :
                        S \in SUBSET (1..maxGroups)}}

\* Some order in which a HashMap yields its keys, when the choice has no effect.
AnyOrder(S) == CHOOSE o \in Orders(S) : TRUE

\* The trees the conversion yields for the snapshots of Spec: up to MaxGroups
\* Selector groups of up to MaxMembers members.
Incoming ==
    {From(val, AnyOrder(DOMAIN val.groups)) :
        val \in Snapshots(MaxGroups, MaxMembers, {"Selector"})}

\* The trees the conversion yields for the snapshots of SpecNames: up to
\* MaxNames groups of either type, each of at most one member.
IncomingNames ==
    {From(val, AnyOrder(DOMAIN val.groups)) :
        val \in {v \in Snapshots(MaxNames, 1, GroupTypes) :
                    \A n \in DOMAIN v.groups : v.groups[n].now = None}}

\* The group type the backend reports for the group named name (SpecConv).
TypeOf(name) == IF name % 2 = 1 THEN "Selector" ELSE "URLTest"

\* Raw groups of SpecConv: an "all" list of distinct names among 1..maxLen, or no
\* "all" list at all, and any "now".
ConvRaw(maxLen, t) ==
    {[proxy_type |-> t, all |-> a, now |-> w] :
        a \in {None} \cup {Some(l) : l \in UNION {Orders(S) : S \in SUBSET (1..maxLen)}},
        w \in {None} \cup {Some(x) : x \in 1..maxLen}}

\* The number of names in the "all" lists of the groups 1..k of choice, which
\* gives each name None (no such group) or Some(raw group).
RECURSIVE TotalLen(_, _)
TotalLen(choice, k) ==
    IF k = 0 THEN 0
    ELSE TotalLen(choice, k - 1)
         + (IF choice[k] = None \/ choice[k][1].all = None THEN 0
            ELSE Len(choice[k][1].all[1]))

\* The snapshot of a choice: its groups, and a lookup that knows the names in S.
ConvVal(choice, S) ==
    [groups |-> [n \in {k \in DOMAIN choice : choice[k] # None} |-> choice[n][1]],
     lookup |-> Lookup(S)]

\* The member x of a tree of SpecRender: the kinds of member the rows tell apart.
RenderMember(x) ==
    [name |-> x,
     proxy_type |-> IF x % 6 = 0 THEN "Selector" ELSE "Vmess",
     history |-> IF x % 6 \in {0, 1} THEN None ELSE Some(((x % 6) - 2) * 150),
     udp |-> FALSE]

\* The trees of SpecRender: up to MaxRenderGroups groups alike but for the name,
\* each with any current and any cursor a group of up to MaxRenderMembers members
\* may have had before a merge shrank it; the tree cursor on any group.
RenderTrees ==
    {ProxyTree([g \in 1..n |->
                  ProxyGroup(g, "Selector", [x \in 1..m |-> RenderMember(x)],
                             current, cursor)],
               FALSE, c) :
        n \in 0..MaxRenderGroups,
        c \in 0..MaxRenderGroups,
        m \in 0..MaxRenderMembers,
        current \in {None} \cup {Some(i) : i \in 0..MaxRenderMembers},
        cursor \in 0..saturating_sub(MaxRenderMembers, 1)}

RenderTreeOk(t) ==
    /\ t.cursor <= saturating_sub(Len(t.groups), 1)
    /\ \A i \in DOMAIN t.groups :
          t.groups[i].current = None \/ t.groups[i].current[1] < Len(t.groups[i].members)

Widths == {0, MaxWidth - 2, MaxWidth}

Heights == {0, 2, MaxHeight}

\* No call is on record.
NoLast == [op |-> "none"]

\* ------------------------------------------------------------------ actions

\* The poller merges the converted snapshot other into the live tree.  The call
\* is kept on record (the tree before, the incoming tree, the path taken, the
\* groups rewritten) until it returns.
MergeTree(other) ==
    /\ last = NoLast
    /\ \E order \in Orders(Remaining(tree, other)) :
          LET m == merge(tree, other, order) IN
          /\ tree' = m.tree
          /\ last' = [op |-> "merge", self |-> tree, other |-> other,
                      path |-> m.path, rewritten |-> m.rewritten]

Merge == \E other \in Incoming : MergeTree(other)

MergeNames == \E other \in IncomingNames : MergeTree(other)

\* The call on record returns.
Return ==
    /\ last # NoLast
    /\ last' = NoLast
    /\ UNCHANGED tree

Toggle ==
    /\ last = NoLast
    /\ tree' = toggle(tree)
    /\ UNCHANGED last

CursorDown ==
    /\ last = NoLast
    /\ cursor_down(tree) # tree
    /\ tree' = cursor_down(tree)
    /\ UNCHANGED last

CursorUp ==
    /\ last = NoLast
    /\ cursor_up(tree) # tree
    /\ tree' = cursor_up(tree)
    /\ UNCHANGED last

Init ==
    /\ tree \in Incoming
    /\ last = NoLast

Next == Merge \/ Return \/ Toggle

Spec == Init /\ [][Next]_vars

InitNames ==
    /\ tree \in IncomingNames
    /\ last = NoLast

NextNames == MergeNames \/ Return \/ Toggle \/ CursorDown \/ CursorUp

SpecNames == InitNames /\ [][NextNames]_vars

\* The poller receives the snapshot val and converts it; order is the order in
\* which val.groups() yields the groups.  A panic leaves no tree.
Convert ==
    /\ last.op = "snapshot"
    /\ \E order \in Orders(DOMAIN last.val.groups) :
          IF FromPanics(last.val)
          THEN /\ last' = [op |-> "from", val |-> last.val, result |-> "panic"]
               /\ UNCHANGED tree
          ELSE /\ last' = [op |-> "from", val |-> last.val, result |-> "ok"]
               /\ tree' = From(last.val, order)

\* A snapshot arrives: groups named among 1..MaxConvGroups, of the type the name
\* decides, with at most MaxConvLen member names in total; the lookup knows
\* every proxy name 1..MaxConvLen, or all but the last.
InitConv ==
    /\ tree = ProxyTree(<<>>, FALSE, 0)
    /\ \E choice \in [1..MaxConvGroups ->
                        {None} \cup {Some(r) : r \in ConvRaw(MaxConvLen, "Selector")}] :
          /\ TotalLen(choice, MaxConvGroups) <= MaxConvLen
          /\ \E S \in {1..MaxConvLen, 1..(MaxConvLen - 1)} :
                last = [op |-> "snapshot",
                        val |-> ConvVal([k \in DOMAIN choice |->
                                   IF choice[k] = None THEN None
                                   ELSE Some([choice[k][1] EXCEPT !.proxy_type = TypeOf(k)])],
                                 S)]

NextConv == Convert \/ Return

SpecConv == InitConv /\ [][NextConv]_vars

\* The live tree is rendered into an area of the given width and height.
Render ==
    /\ last = NoLast
    /\ \E width \in Widths, height \in Heights :
          last' = [op |-> "render", width |-> width, height |-> height,
                   frame |-> render(tree, width, height)]
    /\ UNCHANGED tree

InitRender ==
    /\ tree \in {t \in RenderTrees : RenderTreeOk(t)}
    /\ last = NoLast

NextRender == Render \/ Return \/ Toggle

SpecRender == InitRender /\ [][NextRender]_vars

\* ------------------------------------------------------------------- claims

\* The content of a group: every field but the cursor.
Content(g) == <<g.name, g.proxy_type, g.members, g.current>>

\* The group named n of a group list without duplicate names.
Named(groups, n) == groups[CHOOSE i \in DOMAIN groups : groups[i].name = n]

Merged == last.op = "merge"

\* C1: a merge leaves the tree's cursor and expanded flag unchanged, and every
\* group of the live tree keeps its cursor whenever that cursor is a valid
\* index into the group's member list after the merge.
C1_MergePreservesNavigation ==
    Merged =>
        /\ tree.cursor = last.self.cursor
        /\ tree.expanded = last.self.expanded
        /\ \A i \in DOMAIN last.self.groups :
              /\ last.self.groups[i].name \in Names(tree.groups)
              /\ \A j \in DOMAIN tree.groups :
                    /\ tree.groups[j].name = last.self.groups[i].name
                    /\ last.self.groups[i].cursor < Len(tree.groups[j].members)
                    => tree.groups[j].cursor = last.self.groups[i].cursor

\* C1 witness: a merge replaced a group's content, and the group kept a cursor
\* that is valid, not 0 and not the incoming group's cursor.
C1_Witness ==
    /\ Merged
    /\ \E i \in last.rewritten :
          LET old == last.self.groups[i]
              new == tree.groups[i]
          IN /\ Content(old) # Content(new)
             /\ old.cursor >= 1
             /\ old.cursor < Len(old.members)
             /\ old.cursor < Len(new.members)
             /\ new.cursor = old.cursor
             /\ Named(last.other.groups, new.name).cursor # old.cursor

\* C2: every group's cursor is in range: at most members.len() - 1, and 0 when
\* the group is empty.
C2_CursorInRange ==
    \A i \in DOMAIN tree.groups :
        tree.groups[i].cursor <= saturating_sub(Len(tree.groups[i].members), 1)

\* Two group lists agree in everything but the cursors.
SameContent(a, b) ==
    /\ Len(a) = Len(b)
    /\ \A i \in DOMAIN a : Content(a[i]) = Content(b[i])

\* C3: when the incoming groups equal the live groups in name, type, members
\* and current, the merge returns at the initial hash comparison, rewrites no
\* group and leaves the tree as it was.
C3_IdempotentByShortCircuit ==
    Merged /\ SameContent(last.self.groups, last.other.groups) =>
        /\ last.path = "return"
        /\ last.rewritten = {}
        /\ tree = last.self

\* C4: after a merge, every group whose name appears in the incoming tree has
\* the incoming group's proxy_type, members and current.
C4_ContentRefreshed ==
    Merged =>
        \A j \in DOMAIN tree.groups : \A k \in DOMAIN last.other.groups :
            tree.groups[j].name = last.other.groups[k].name
            => /\ tree.groups[j].proxy_type = last.other.groups[k].proxy_type
               /\ tree.groups[j].members = last.other.groups[k].members
               /\ tree.groups[j].current = last.other.groups[k].current

\* C4 witness: a merge gave a group new members and a new current, while the
\* group kept a cursor of its own.
C4_Witness ==
    /\ Merged
    /\ \E i \in last.rewritten :
          LET old == last.self.groups[i]
              new == tree.groups[i]
              inc == Named(last.other.groups, new.name)
          IN /\ old.members # new.members
             /\ old.current # new.current
             /\ new.current # None
             /\ new.members = inc.members
             /\ new.cursor # inc.cursor

\* C5: a merge keeps the live tree's groups where they were (a group whose name
\* is missing from the incoming tree is unchanged), appends every incoming
\* group of a new name exactly once after them, and keeps an in-range tree
\* cursor in range.
C5_GroupsRetainedAndAppended ==
    Merged =>
        LET old == last.self.groups
            inc == last.other.groups
        IN /\ Len(tree.groups) >= Len(old)
           /\ \A i \in DOMAIN old :
                 /\ tree.groups[i].name = old[i].name
                 /\ old[i].name \notin Names(inc) => tree.groups[i] = old[i]
           /\ \A n \in Names(inc) \ Names(old) :
                 /\ Cardinality({j \in DOMAIN tree.groups : tree.groups[j].name = n}) = 1
                 /\ \E j \in DOMAIN tree.groups :
                       j > Len(old) /\ tree.groups[j] = Named(inc, n)
           /\ last.self.cursor < Len(old) => tree.cursor < Len(tree.groups)

\* C5 witness: a merge retained a group that the incoming tree lacks, behind a
\* group sorting after it, and appended a new one.
C5_Witness ==
    /\ Merged
    /\ \E i \in DOMAIN last.self.groups :
          last.self.groups[i].name \notin Names(last.other.groups)
    /\ \E j \in DOMAIN tree.groups :
          /\ j > Len(last.self.groups)
          /\ tree.groups[j].name < tree.groups[1].name

\* C9: the groups a merge appends stand in the order they have in the
\* incoming tree.
C9_AppendedInIncomingOrder ==
    Merged =>
        \A a, b \in DOMAIN tree.groups :
            /\ Len(last.self.groups) < a
            /\ a < b
            => \E x, y \in DOMAIN last.other.groups :
                  /\ x < y
                  /\ last.other.groups[x].name = tree.groups[a].name
                  /\ last.other.groups[y].name = tree.groups[b].name

\* C10: the live tree holds no two groups of the same name.
C10_UniqueNames ==
    \A i, j \in DOMAIN tree.groups :
        tree.groups[i].name = tree.groups[j].name => i = j

\* C10 witness: a merge matched an incoming group to a live one, rewrote it,
\* and appended another.
C10_Witness ==
    /\ Merged
    /\ last.rewritten # {}
    /\ Len(tree.groups) > Len(last.self.groups)

\* Every group of the snapshot has an "all" list.
HasAll(val) == \A n \in DOMAIN val.groups : val.groups[n].all # None

\* Some member name of the snapshot is missing from the lookup.
MemberMissing(val) ==
    \E n \in DOMAIN val.groups :
        /\ val.groups[n].all # None
        /\ \E x \in Range(val.groups[n].all[1]) : x \notin DOMAIN val.lookup

\* Some "now" name of the snapshot is not among the group's members.
NowMissing(val) ==
    \E n \in DOMAIN val.groups :
        /\ val.groups[n].all # None
        /\ val.groups[n].now # None
        /\ val.groups[n].now[1] \notin Range(val.groups[n].all[1])

\* C8: the conversion of a well-formed snapshot yields one group per backend
\* group, sorted ascending by name, with the members in the order of "all",
\* current = Some(i) where members[i] bears the "now" name (None without a
\* "now"), cursor = i or 0, tree cursor 0 and expanded false; a member missing
\* from the lookup or a "now" that is no member is a panic that yields no tree.
C8_Conversion ==
    last.op = "from" =>
        LET val == last.val IN
        /\ MemberMissing(val) \/ NowMissing(val)
           => last.result = "panic" /\ tree = ProxyTree(<<>>, FALSE, 0)
        /\ HasAll(val) /\ ~MemberMissing(val) /\ ~NowMissing(val)
           => /\ last.result = "ok"
              /\ tree.cursor = 0
              /\ tree.expanded = FALSE
              /\ Len(tree.groups) = Cardinality(DOMAIN val.groups)
              /\ Names(tree.groups) = DOMAIN val.groups
              /\ \A i, j \in DOMAIN tree.groups :
                    i < j => tree.groups[i].name < tree.groups[j].name
              /\ \A i \in DOMAIN tree.groups :
                    LET g == tree.groups[i]
                        raw == val.groups[g.name]
                    IN /\ g.proxy_type = raw.proxy_type
                       /\ Len(g.members) = Len(raw.all[1])
                       /\ \A k \in DOMAIN g.members :
                             /\ g.members[k].name = raw.all[1][k]
                             /\ g.members[k].proxy_type
                                   = val.lookup[raw.all[1][k]].proxy_type
                       /\ raw.now = None => g.current = None /\ g.cursor = 0
                       /\ raw.now # None
                          => /\ g.current # None
                             /\ g.current[1] < Len(g.members)
                             /\ g.members[g.current[1] + 1].name = raw.now[1]
                             /\ g.cursor = g.current[1]
                       /\ g.cursor <= saturating_sub(Len(g.members), 1)

\* C8 witness: a snapshot of two groups, yielded out of order, one of them with
\* its members out of name order and its second member active, was converted.
C8_Witness ==
    /\ last.op = "from"
    /\ last.result = "ok"
    /\ Len(tree.groups) = 2
    /\ \E i \in DOMAIN tree.groups :
          /\ tree.groups[i].current = Some(1)
          /\ tree.groups[i].cursor = 1
          /\ tree.groups[i].members[1].name > tree.groups[i].members[2].name

Rendered == last.op = "render"

\* C6: rendering never fails: for every tree and every viewport, render
\* completes and yields rows.
C6_RenderNeverFails == Rendered => last.frame.result = "rows"

\* C7: render starts at the group max(0, c - 2) of a collapsed tree and at the
\* group c of an expanded one; the group c and no other is given the status
\* Focused (collapsed) or Expanded (expanded); the rows of the expanded group
\* start at member max(0, k - 4), with the pointed glyph on member k and the
\* highlight of the current member on member current.
C7_ScrollWindows ==
    Rendered /\ last.frame.result = "rows" =>
        LET c == tree.cursor
            first == IF tree.expanded THEN c ELSE IF c >= 2 THEN c - 2 ELSE 0
            calls == last.frame.calls
            text == last.frame.text
            group == tree.groups[c + 1]
            k == group.cursor
            start == IF k >= 4 THEN k - 4 ELSE 0
        IN /\ first < Len(tree.groups) => calls # <<>> /\ calls[1].index = first
           /\ first >= Len(tree.groups) => calls = <<>>
           /\ \A n \in DOMAIN calls :
                 /\ calls[n].index = first + n - 1
                 /\ calls[n].status =
                       IF calls[n].index # c THEN "None"
                       ELSE IF tree.expanded THEN "Expanded" ELSE "Focused"
           /\ first < Len(tree.groups) /\ last.height >= 1
              => /\ text[1].kind = "header"
                 /\ text[1].name = tree.groups[first + 1].name
                 /\ text[1].prefix = "FOCUSED_INDICATOR_SPAN"
                       <=> ~tree.expanded /\ first = c
           /\ \A n \in DOMAIN text :
                 /\ text[n].kind = "header" /\ n > 1
                    => text[n].prefix = "FOCUSED_INDICATOR_SPAN"
                          <=> ~tree.expanded /\ text[n].name = tree.groups[c + 1].name
                 /\ text[n].kind = "summary"
                    => text[n].prefix = "FOCUSED_INDICATOR_SPAN"
                          <=> \E h \in 1..(n - 1) :
                                /\ text[h].kind = "header"
                                /\ text[h].prefix = "FOCUSED_INDICATOR_SPAN"
                                /\ \A x \in (h + 1)..n : text[x].kind = "summary"
                 /\ text[n].kind = "member"
                    => /\ tree.expanded
                       /\ text[n].name = group.members[start + n - 1].name
                       /\ text[n].prefix = "EXPANDED_FOCUSED_INDICATOR_SPAN"
                             <=> /\ k < Len(group.members)
                                 /\ text[n].name = group.members[k + 1].name
                       /\ text[n].style = "current"
                             <=> /\ group.current # None
                                 /\ text[n].name = group.members[group.current[1] + 1].name
           /\ /\ tree.expanded
              /\ c < Len(tree.groups)
              /\ last.height >= 2
              /\ start < Len(group.members)
              => text[2].kind = "member" /\ text[2].name = group.members[start + 1].name

\* C7 witness: an expanded tree was rendered from its fourth group on; the
\* listing of that group, whose cursor is on its sixth member, starts at the
\* second member, points at the sixth and highlights the current fifth.
C7_Witness ==
    /\ Rendered
    /\ last.frame.result = "rows"
    /\ tree.expanded
    /\ tree.cursor = 3
    /\ tree.groups[4].cursor = 5
    /\ tree.groups[4].current = Some(4)
    /\ Len(last.frame.text) >= 6
    /\ last.frame.text[1].name = tree.groups[4].name
    /\ last.frame.text[2].name = tree.groups[4].members[2].name
    /\ last.frame.text[5].style = "current"
    /\ last.frame.text[6].prefix = "EXPANDED_FOCUSED_INDICATOR_SPAN"

====
